---- MODULE Spec2Model ----
(***************************************************************************)
(* Aircraft state aggregation of adsb-at-home: the per-aircraft record     *)
(* (src/AircraftState.py), the registry that fuses decoded messages into   *)
(* records and evicts stale ones (src/SeenAircraft.py), and the loop that  *)
(* feeds it from the input (src/stream1090/streamConsumer.py).             *)
(*                                                                         *)
(* Python values are modelled as follows.  An optional value is a sequence *)
(* of length 0 (None) or 1 (the value), so "x is not None" is x # None.    *)
(* A dict is a function whose DOMAIN is the set of its keys, so "k in d"   *)
(* is k \in DOMAIN d, and a key may be present with the value None.        *)
(* Timestamps are whole seconds; latitude/longitude are whole degrees.     *)
(* One call of a handler reads the clock at one instant.                   *)
(***************************************************************************)
EXTENDS Integers, Sequences, FiniteSets, TLC

(* ------------------------------ bounds --------------------------------- *)
\* One aircraft (Spec): the clock instants after the first one, and the
\* counted messages a record takes in its life.
MaxTick == 2
MaxMessages == 5
\* Two aircraft (SpecFleet): the same two bounds.
MaxFleetTick == 2
MaxFleetMessages == 2
\* The ingestion loop (SpecLoop): the clock instants after the first one,
\* and the lines on the input.
MaxLoopTick == 3
MaxLines == 3
\* A stale record (SpecStale): the counted messages a record takes.
MaxStaleMessages == 9

(* -------------------------- program constants -------------------------- *)
cleanup_threshold_seconds == 300
CprWindowSeconds == 10
cleanup_interval_seconds == 3600

(* --------------------------- Python values ----------------------------- *)
None == <<>>
Some(v) == <<v>>
\* Python truthiness of an optional string: None and "" are falsy.
Truthy(o) == o # None /\ o[1] # ""
\* Python truthiness of an optional number: None, 0 and 0.0 are falsy.
TruthyNumber(o) == o # None /\ o[1] # 0
EmptyDict == [k \in {} |-> None]
\* d.get(k): the value of k, or None when the key is missing.
DictGet(d, k) == IF k \in DOMAIN d THEN d[k] ELSE None
Abs(n) == IF n < 0 THEN -n ELSE n

(* ------------------------------ the clock ------------------------------ *)
\* The instants at which something happens, in seconds.  They are spaced
\* so that two frames can be 2, 10 and 12 seconds apart and a record can
\* be idle for 290 seconds, for exactly 300 and for 302.
TimeAt(i) ==
    CASE i = 0 -> 0
      [] i = 1 -> 2
      [] i = 2 -> 12
      [] i = 3 -> 302
      [] OTHER -> 302 + 9 * (i - 3)
Instants(n) == {TimeAt(i) : i \in 0..n}
\* The instants of the two-aircraft runs: idle times of 300 and 302 seconds.
FleetTimeAt(i) ==
    CASE i = 0 -> 0
      [] i = 1 -> 2
      [] i = 2 -> 302
      [] OTHER -> 302 + 9 * (i - 2)
FleetInstants(n) == {FleetTimeAt(i) : i \in 0..n}

VARIABLES
    now,        \* the wall clock: what datetime.now(timezone.utc) returns
    aircraft,   \* SeenAircraft.aircraft: icao -> AircraftState
    ret,        \* what the last call of update_from_decoded_message returned
    called,     \* whether that call invoked pms.adsb.airborne_position
    complete,   \* the keys the last call of get_complete_aircraft returned
    last,       \* the last message given: its aircraft key and its kind
    ghost,      \* per record: what the messages applied to it were
    scen,       \* how far the calls made so far follow the scenario
    loop        \* consume_ten_ninty_stream: the lines still on the input,
                \* whether the loop is running, last_cleanup, and what
                \* the last line read was and what became of the lines

vars == <<now, aircraft, ret, called, complete, last, ghost, scen, loop>>

(* ============================ AircraftState ============================ *)
\* AircraftState.__init__ at clock reading t.
AircraftState(icao, t) ==
    [icao |-> icao, callsign |-> None,
     lat |-> None, lon |-> None, alt |-> None,
     speed |-> None, heading |-> None, vertical_rate |-> None,
     velocity_type |-> None,
     cpr_even_frame |-> None, cpr_odd_frame |-> None,
     cpr_even_timestamp |-> None, cpr_odd_timestamp |-> None,
     first_seen |-> t, last_seen |-> t, message_count |-> 1]

\* Mutant of update_timestamp: stamps first_seen as well.
update_timestamp_restamps(a, t) ==
    [a EXCEPT !.first_seen = t, !.last_seen = t, !.message_count = @ + 1]

update_timestamp(a, t) ==
    [a EXCEPT !.last_seen = t, !.message_count = @ + 1]

\* Mutant of set_callsign: counts the message even when the value is falsy.
set_callsign_always_counts(a, value, t) ==
    update_timestamp(IF Truthy(value) THEN [a EXCEPT !.callsign = value]
                     ELSE a, t)

\* Mutant of set_callsign: an empty string is stored like any other.
set_callsign_any(a, value, t) ==
    IF value # None
    THEN update_timestamp([a EXCEPT !.callsign = value], t)
    ELSE a

\* The callsign setter: a falsy value (None or "") changes nothing.
set_callsign(a, value, t) ==
    IF Truthy(value)
    THEN update_timestamp([a EXCEPT !.callsign = value], t)
    ELSE a

\* The speed, heading, vertical_rate and velocity_type setters: each stores
\* the value it is given, None included, and counts.
set_speed(a, value, t) == update_timestamp([a EXCEPT !.speed = value], t)
set_heading(a, value, t) == update_timestamp([a EXCEPT !.heading = value], t)
set_vertical_rate(a, value, t) ==
    update_timestamp([a EXCEPT !.vertical_rate = value], t)
set_velocity_type(a, value, t) ==
    update_timestamp([a EXCEPT !.velocity_type = value], t)

\* Mutant of store_cpr_frame: stores the frame in both buffers.
store_cpr_frame_both(a, raw_msg, cpr_odd_flag, t) ==
    [a EXCEPT !.cpr_odd_frame = raw_msg, !.cpr_odd_timestamp = Some(t),
              !.cpr_even_frame = raw_msg, !.cpr_even_timestamp = Some(t)]

\* Mutant of store_cpr_frame: storing a frame empties the other buffer.
store_cpr_frame_alone(a, raw_msg, cpr_odd_flag, t) ==
    IF cpr_odd_flag
    THEN [a EXCEPT !.cpr_odd_frame = raw_msg, !.cpr_odd_timestamp = Some(t),
                   !.cpr_even_frame = None, !.cpr_even_timestamp = None]
    ELSE [a EXCEPT !.cpr_even_frame = raw_msg, !.cpr_even_timestamp = Some(t),
                   !.cpr_odd_frame = None, !.cpr_odd_timestamp = None]

\* The buffers after the new frame is stored (lines 62-67).
store_cpr_frame(a, raw_msg, cpr_odd_flag, t) ==
    IF cpr_odd_flag
    THEN [a EXCEPT !.cpr_odd_frame = raw_msg, !.cpr_odd_timestamp = Some(t)]
    ELSE [a EXCEPT !.cpr_even_frame = raw_msg, !.cpr_even_timestamp = Some(t)]

\* Mutant of cpr_pair_ready: a pair exactly 10 seconds apart is decoded.
cpr_pair_ready_inclusive(a) ==
    /\ Truthy(a.cpr_even_frame)
    /\ Truthy(a.cpr_odd_frame)
    /\ Abs(a.cpr_even_timestamp[1] - a.cpr_odd_timestamp[1]) <= CprWindowSeconds

\* Whether the buffered pair is handed to the resolver (lines 70-72).
cpr_pair_ready(a) ==
    /\ Truthy(a.cpr_even_frame)
    /\ Truthy(a.cpr_odd_frame)
    /\ Abs(a.cpr_even_timestamp[1] - a.cpr_odd_timestamp[1]) < CprWindowSeconds

\* Mutant of decode_cpr_pair: writes the latitude and not the longitude.
decode_cpr_pair_lat_only(a, res) ==
    IF ~res.raises /\ res.value # None
    THEN [a EXCEPT !.lat = Some(res.value[1][1])]
    ELSE a

\* Mutant of decode_cpr_pair: a failed decoding clears the position.
decode_cpr_pair_clears(a, res) ==
    IF ~res.raises /\ res.value # None
    THEN [a EXCEPT !.lat = Some(res.value[1][1]), !.lon = Some(res.value[1][2])]
    ELSE [a EXCEPT !.lat = None, !.lon = None]

\* Lines 73-88: res is what pms.adsb.airborne_position does on this call:
\* it raises, or it returns None or a (lat, lon) pair.
decode_cpr_pair(a, res) ==
    IF ~res.raises /\ res.value # None
    THEN [a EXCEPT !.lat = Some(res.value[1][1]), !.lon = Some(res.value[1][2])]
    ELSE a

\* update_position_from_message: the record afterwards, and whether the
\* resolver was invoked.
update_position_from_message(a, raw_msg, altitude, cpr_odd_flag, t, res) ==
    LET a1 == IF altitude # None THEN [a EXCEPT !.alt = altitude] ELSE a
        a2 == update_timestamp(a1, t)
        a3 == store_cpr_frame(a2, raw_msg, cpr_odd_flag, t)
    IN  IF cpr_pair_ready(a3)
        THEN [state |-> decode_cpr_pair(a3, res), called |-> TRUE]
        ELSE [state |-> a3, called |-> FALSE]

\* Mutant of is_complete: asks for velocity_type too.
is_complete_with_type(a) ==
    /\ a.callsign # None
    /\ a.lat # None /\ a.lon # None /\ a.alt # None
    /\ a.speed # None /\ a.heading # None /\ a.vertical_rate # None
    /\ a.velocity_type # None

is_complete(a) ==
    LET has_identity == a.callsign # None
        has_position == a.lat # None /\ a.lon # None /\ a.alt # None
        has_velocity == /\ a.speed # None
                        /\ a.heading # None
                        /\ a.vertical_rate # None
    IN  has_identity /\ has_position /\ has_velocity

\* datetime.isoformat() + "Z" (lines 166 and 180-181): the reading as a
\* text with the suffix.
isoformat_Z(t) == <<"iso", t, "Z">>

\* Lines 162-184: the dictionary that is printed.  A section is there when
\* any() of its fields is truthy, and None otherwise.
to_dict(a) ==
    [icao |-> a.icao,
     timestamp |-> isoformat_Z(a.last_seen),
     callsign |-> a.callsign,
     position |->
        IF TruthyNumber(a.lat) \/ TruthyNumber(a.lon) \/ TruthyNumber(a.alt)
        THEN Some([latitude |-> a.lat, longitude |-> a.lon,
                   altitude_ft |-> a.alt])
        ELSE None,
     velocity |->
        IF \/ TruthyNumber(a.speed) \/ TruthyNumber(a.heading)
           \/ TruthyNumber(a.vertical_rate) \/ Truthy(a.velocity_type)
        THEN Some([ground_speed_kts |-> a.speed, heading_deg |-> a.heading,
                   vertical_rate_fpm |-> a.vertical_rate,
                   velocity_type |-> a.velocity_type])
        ELSE None,
     metadata |-> [first_seen |-> isoformat_Z(a.first_seen),
                   last_seen |-> isoformat_Z(a.last_seen),
                   message_count |-> a.message_count]]

(* ============================= SeenAircraft ============================ *)
PositionTypes == {"position", "position_gnss"}
AltitudeTypes == {"surveillance_alt", "commb_alt", "short_acas", "long_acas"}
VelocityKeys == {"speed", "heading", "vertical_rate", "velocity_type"}

\* Lines 46-71: the position, position_gnss and surface_position branch.
apply_position(a, msg_type, decoded_msg, data, t, res) ==
    LET raw_msg == DictGet(decoded_msg, "msg")
        altitude == DictGet(data, "altitude")
        cpr_odd_flag == IF "cpr_odd_flag" \in DOMAIN data
                        THEN data.cpr_odd_flag ELSE FALSE
    IN  IF Truthy(raw_msg)
        THEN IF msg_type \in PositionTypes
             THEN update_position_from_message(a, raw_msg, altitude,
                                               cpr_odd_flag, t, res)
             ELSE [state |-> update_timestamp(
                                 IF altitude # None
                                 THEN [a EXCEPT !.alt = altitude] ELSE a, t),
                   called |-> FALSE]
        ELSE [state |-> update_timestamp(a, t), called |-> FALSE]

\* Lines 73-94: the velocity branch, one setter per key the data holds.
apply_velocity(a, data, t) ==
    LET a1 == IF "speed" \in DOMAIN data
              THEN set_speed(a, data.speed, t) ELSE a
        a2 == IF "heading" \in DOMAIN data
              THEN set_heading(a1, data.heading, t) ELSE a1
        a3 == IF "vertical_rate" \in DOMAIN data
              THEN set_vertical_rate(a2, data.vertical_rate, t) ELSE a2
        a4 == IF "velocity_type" \in DOMAIN data
              THEN set_velocity_type(a3, data.velocity_type, t) ELSE a3
    IN  IF VelocityKeys \cap DOMAIN data = {}
        THEN update_timestamp(a4, t)
        ELSE a4

\* Lines 96-106: the surveillance branch.
apply_altitude(a, data, t) ==
    IF "altitude" \in DOMAIN data /\ data.altitude # None
    THEN update_timestamp([a EXCEPT !.alt = data.altitude], t)
    ELSE update_timestamp(a, t)

\* Mutant of dispatch: a message of a category that carries nothing for
\* the record is not counted.
dispatch_known_only(a, decoded_msg, t, res) ==
    LET msg_type == IF "msg_type" \in DOMAIN decoded_msg
                    THEN decoded_msg.msg_type ELSE "None"
        data == IF "data" \in DOMAIN decoded_msg
                THEN decoded_msg.data ELSE EmptyDict
    IN  IF msg_type = "identity" /\ "callsign" \in DOMAIN data
        THEN [state |-> set_callsign(a, data.callsign, t), called |-> FALSE]
        ELSE IF msg_type \in PositionTypes \cup {"surface_position"}
        THEN apply_position(a, msg_type, decoded_msg, data, t, res)
        ELSE IF msg_type = "velocity"
        THEN [state |-> apply_velocity(a, data, t), called |-> FALSE]
        ELSE IF msg_type \in AltitudeTypes
        THEN [state |-> apply_altitude(a, data, t), called |-> FALSE]
        ELSE [state |-> a, called |-> FALSE]

\* Lines 41-123: the dispatch on msg_type.
dispatch(a, decoded_msg, t, res) ==
    LET msg_type == IF "msg_type" \in DOMAIN decoded_msg
                    THEN decoded_msg.msg_type ELSE "None"
        data == IF "data" \in DOMAIN decoded_msg
                THEN decoded_msg.data ELSE EmptyDict
    IN  IF msg_type = "identity" /\ "callsign" \in DOMAIN data
        THEN [state |-> set_callsign(a, data.callsign, t), called |-> FALSE]
        ELSE IF msg_type \in PositionTypes \cup {"surface_position"}
        THEN apply_position(a, msg_type, decoded_msg, data, t, res)
        ELSE IF msg_type = "velocity"
        THEN [state |-> apply_velocity(a, data, t), called |-> FALSE]
        ELSE IF msg_type \in AltitudeTypes
        THEN [state |-> apply_altitude(a, data, t), called |-> FALSE]
        ELSE [state |-> update_timestamp(a, t), called |-> FALSE]

\* Mutant of returned: the record is returned whether complete or not.
returned_always(a) == Some(a.icao)

\* Line 130: what the call returns, the record (named by its key) or None.
returned(a) == IF is_complete(a) THEN Some(a.icao) ELSE None

\* Mutant of get_or_create: a new record replaces the one that is there.
get_or_create_anew(reg, icao, t) ==
    [k \in DOMAIN reg \cup {icao} |->
        IF k = icao THEN AircraftState(icao, t) ELSE reg[k]]

\* Lines 31-32: get or create.
get_or_create(reg, icao, t) ==
    IF icao \in DOMAIN reg
    THEN reg
    ELSE [k \in DOMAIN reg \cup {icao} |->
            IF k = icao THEN AircraftState(icao, t) ELSE reg[k]]

\* Mutant of update_from_decoded_message: a keyed message refreshes the
\* last_seen of every record.
update_from_decoded_message_all(reg, decoded_msg, t, res) ==
    IF DOMAIN decoded_msg = {} \/ "icao" \notin DOMAIN decoded_msg
    THEN [aircraft |-> reg, ret |-> None, called |-> FALSE]
    ELSE LET icao == decoded_msg.icao
             reg1 == get_or_create(reg, icao, t)
             out  == dispatch(reg1[icao], decoded_msg, t, res)
         IN  [aircraft |-> [k \in DOMAIN reg1 |->
                              IF k = icao THEN out.state
                              ELSE [reg1[k] EXCEPT !.last_seen = t]],
              ret |-> returned(out.state),
              called |-> out.called]

\* Mutant of update_from_decoded_message: only the empty message is turned
\* away, and a message without a key is filed under the key "None".
update_from_decoded_message_unkeyed(reg, decoded_msg, t, res) ==
    IF DOMAIN decoded_msg = {}
    THEN [aircraft |-> reg, ret |-> None, called |-> FALSE]
    ELSE LET icao == IF "icao" \in DOMAIN decoded_msg
                     THEN decoded_msg.icao ELSE "None"
             reg1 == get_or_create(reg, icao, t)
             out  == dispatch(reg1[icao], decoded_msg, t, res)
         IN  [aircraft |-> [reg1 EXCEPT ![icao] = out.state],
              ret |-> returned(out.state),
              called |-> out.called]

\* update_from_decoded_message on registry reg at clock reading t: the
\* registry afterwards, the value returned, and whether the resolver ran.
update_from_decoded_message(reg, decoded_msg, t, res) ==
    IF DOMAIN decoded_msg = {} \/ "icao" \notin DOMAIN decoded_msg
    THEN [aircraft |-> reg, ret |-> None, called |-> FALSE]
    ELSE LET icao == decoded_msg.icao
             reg1 == get_or_create(reg, icao, t)
             out  == dispatch(reg1[icao], decoded_msg, t, res)
         IN  [aircraft |-> [reg1 EXCEPT ![icao] = out.state],
              ret |-> returned(out.state),
              called |-> out.called]

\* get_complete_aircraft: the records kept are those of these keys.
get_complete_aircraft(reg) ==
    {icao \in DOMAIN reg : is_complete(reg[icao])}

\* Mutant of to_remove: a record idle for exactly the threshold goes too.
to_remove_at_threshold(reg, t) ==
    {icao \in DOMAIN reg :
        t - reg[icao].last_seen >= cleanup_threshold_seconds}

\* Lines 146-149: the keys the pass removes.
to_remove(reg, t) ==
    {icao \in DOMAIN reg :
        t - reg[icao].last_seen > cleanup_threshold_seconds}

\* cleanup_old_aircraft at clock reading t.
cleanup_old_aircraft(reg, t) ==
    [icao \in DOMAIN reg \ to_remove(reg, t) |-> reg[icao]]

(* ======================= messages and the resolver ===================== *)
\* What pms.adsb.airborne_position can do on one call.
ResolverOutcomes ==
    {[raises |-> TRUE, value |-> None],
     [raises |-> FALSE, value |-> None],
     [raises |-> FALSE, value |-> Some(<<37, -122>>)]}

Message(icao, msg_type, data) ==
    [icao |-> icao, msg_type |-> msg_type, data |-> data]
\* A decoded message that carries its raw frame under "msg".
Frame(icao, msg_type, data, raw) ==
    [icao |-> icao, msg_type |-> msg_type, data |-> data, msg |-> Some(raw)]

IdentityMessages(icao) ==
    {Message(icao, "identity", d) :
        d \in {EmptyDict, [callsign |-> Some("")],
               [callsign |-> Some("UAL123")]}}

PositionMessages(icao) ==
    {Frame(icao, "position", d, "F1") :
        d \in {[cpr_odd_flag |-> FALSE],
               [altitude |-> Some(35000), cpr_odd_flag |-> FALSE],
               [altitude |-> Some(35000)]}}
    \cup {Frame(icao, "position", d, "F2") :
        d \in {[cpr_odd_flag |-> TRUE],
               [altitude |-> Some(35000), cpr_odd_flag |-> TRUE]}}
    \cup {Frame(icao, "position_gnss", [cpr_odd_flag |-> FALSE], "F1"),
          Frame(icao, "position_gnss",
                [altitude |-> Some(35000), cpr_odd_flag |-> TRUE], "F2")}

SurfaceMessages(icao) ==
    {Frame(icao, "surface_position", d, "F3") :
        d \in {[cpr_odd_flag |-> TRUE],
               [altitude |-> Some(0), cpr_odd_flag |-> FALSE]}}
    \cup {Message(icao, "surface_position", [cpr_odd_flag |-> FALSE])}

VelocityMessages(icao) ==
    {Message(icao, "velocity", d) :
        d \in {EmptyDict,
               [speed |-> None],
               [heading |-> Some(270), vertical_rate |-> Some(0)],
               [speed |-> Some(450), heading |-> Some(270),
                vertical_rate |-> Some(0)]}}

AltitudeMessages(icao) ==
    {Message(icao, t, [altitude |-> Some(35000)]) : t \in AltitudeTypes}
    \cup {Message(icao, "surveillance_alt", EmptyDict),
          Message(icao, "short_acas", [altitude |-> None])}

OtherMessages(icao) ==
    {Message(icao, "surveillance_identity", [squawk |-> Some("7000")]),
     Message(icao, "status", EmptyDict),
     Message(icao, "unknown_df", [df |-> Some(24)]),
     Message(icao, "mystery", EmptyDict),
     [icao |-> icao]}

\* A position message without its raw frame.
BareMessages(icao) ==
    {Message(icao, "position",
             [altitude |-> Some(35000), cpr_odd_flag |-> TRUE])}

\* The messages that can reach the resolver, and the others given to one
\* aircraft.
FrameMessages(icao) == PositionMessages(icao)
PlainMessages(icao) ==
    IdentityMessages(icao) \cup SurfaceMessages(icao)
    \cup BareMessages(icao) \cup VelocityMessages(icao)
    \cup {Message(icao, "surveillance_alt", [altitude |-> Some(35000)]),
          Message(icao, "short_acas", [altitude |-> None]),
          Message(icao, "status", EmptyDict),
          Message(icao, "target_state", EmptyDict),
          Message(icao, "operation_status", EmptyDict),
          Message(icao, "all_call", EmptyDict),
          Message(icao, "mystery", EmptyDict),
          [icao |-> icao]}

\* Messages without an aircraft key: an empty dict, a decoder error value,
\* an identity message that lacks the key.
KeylessMessages ==
    {EmptyDict, [error |-> "Error decoding message"],
     [msg_type |-> "identity", data |-> [callsign |-> Some("UAL123")]]}

(* ------------------------- what a message is --------------------------- *)
MsgType(m) == IF "msg_type" \in DOMAIN m THEN m.msg_type ELSE "None"
MsgData(m) == IF "data" \in DOMAIN m THEN m.data ELSE EmptyDict
HasKey(m) == "icao" \in DOMAIN m
\* An identity message whose callsign field is present but empty.
IsEmptyCallsign(m) ==
    /\ MsgType(m) = "identity"
    /\ "callsign" \in DOMAIN MsgData(m)
    /\ MsgData(m).callsign = Some("")
\* A position or position_gnss message that carries its raw frame.
IsFrame(m) == MsgType(m) \in PositionTypes /\ Truthy(DictGet(m, "msg"))
\* The parity of a position or position_gnss message.
ParityOf(m) ==
    IF "cpr_odd_flag" \in DOMAIN MsgData(m) /\ MsgData(m).cpr_odd_flag
    THEN "odd" ELSE "even"
KindOf(m) ==
    IF IsFrame(m) THEN "frame"
    ELSE IF IsEmptyCallsign(m) THEN "empty_callsign"
    ELSE "other"

(* ------------------------------- ghost --------------------------------- *)
\* For each record, over its life: expected is 1 plus the number of
\* messages applied that were not empty-callsign identity messages,
\* parities holds the parities of its position and position_gnss messages,
\* and frame is the parity and the text of the last of them that came with
\* its raw frame.
NewGhost == [expected |-> 1, parities |-> {}, frame |-> None]
GhostAfter(g, m) ==
    [expected |-> IF IsEmptyCallsign(m) THEN g.expected ELSE g.expected + 1,
     parities |-> IF MsgType(m) \in PositionTypes
                  THEN g.parities \cup {ParityOf(m)} ELSE g.parities,
     frame |-> IF IsFrame(m)
               THEN Some([parity |-> ParityOf(m), text |-> m.msg])
               ELSE g.frame]
GhostOf(k) == IF k \in DOMAIN ghost THEN ghost[k] ELSE NewGhost

(* ----------------------------- the scenario ---------------------------- *)
\* The four calls of the scenario, on an empty registry: an identity
\* message, an even position frame, two seconds later an odd position frame
\* that the resolver decodes to (37, -122), and a velocity message.
ScenarioOff == 0 - 1
ScenarioStep(i) ==
    CASE i = 1 -> [m |-> Message("AA", "identity", [callsign |-> Some("UAL123")]),
                   res |-> [raises |-> TRUE, value |-> None],
                   at |-> TimeAt(0)]
      [] i = 2 -> [m |-> Frame("AA", "position",
                               [altitude |-> Some(35000),
                                cpr_odd_flag |-> FALSE], "F1"),
                   res |-> [raises |-> TRUE, value |-> None],
                   at |-> TimeAt(0)]
      [] i = 3 -> [m |-> Frame("AA", "position",
                               [altitude |-> Some(35000),
                                cpr_odd_flag |-> TRUE], "F2"),
                   res |-> [raises |-> FALSE, value |-> Some(<<37, -122>>)],
                   at |-> TimeAt(0) + 2]
      [] OTHER -> [m |-> Message("AA", "velocity",
                                 [speed |-> Some(450), heading |-> Some(270),
                                  vertical_rate |-> Some(0)]),
                   res |-> [raises |-> TRUE, value |-> None],
                   at |-> TimeAt(0) + 2]
\* scen = i: the messages given since construction are exactly the first i
\* of the scenario and no record was evicted; ScenarioOff: otherwise.
ScenarioAfter(s, m, res, t) ==
    IF /\ s \in 0..3
       /\ ScenarioStep(s + 1) = [m |-> m, res |-> res, at |-> t]
    THEN s + 1
    ELSE ScenarioOff

(* =============================== actions =============================== *)
Init ==
    /\ now = TimeAt(0)
    /\ aircraft = EmptyDict
    /\ ret = None
    /\ called = FALSE
    /\ complete = None
    /\ last = [icao |-> None, kind |-> "none"]
    /\ ghost = EmptyDict
    /\ scen = 0
    /\ loop = [pending |-> MaxLines, running |-> TRUE,
               last_cleanup |-> TimeAt(0), outcome |-> "none",
               marker_read |-> FALSE, marker |-> FALSE, error |-> FALSE,
               evicted |-> {}, printed |-> None,
               skipped |-> FALSE, raised |-> FALSE]

\* Time passes to the next of the instants S.
TickWithin(S) ==
    /\ \E t \in S :
          /\ t > now
          /\ \A u \in S : u > now => t <= u
          /\ now' = t
    /\ UNCHANGED <<aircraft, ret, called, complete, last, ghost, scen, loop>>

\* One call of update_from_decoded_message, the resolver behaving as res;
\* a record takes at most n counted messages.
IngestUpTo(m, res, n) ==
    /\ HasKey(m) => GhostOf(m.icao).expected <= n
    /\ LET out == update_from_decoded_message(aircraft, m, now, res)
       IN  /\ aircraft' = out.aircraft
           /\ ret' = out.ret
           /\ called' = out.called
    /\ last' = [icao |-> IF HasKey(m) THEN Some(m.icao) ELSE None,
                kind |-> KindOf(m)]
    /\ ghost' = IF HasKey(m)
                THEN [k \in DOMAIN ghost \cup {m.icao} |->
                        IF k = m.icao THEN GhostAfter(GhostOf(k), m)
                        ELSE ghost[k]]
                ELSE ghost
    /\ scen' = ScenarioAfter(scen, m, res, now)
    /\ UNCHANGED <<now, complete, loop>>

\* One call of cleanup_old_aircraft.
Cleanup ==
    /\ aircraft' = cleanup_old_aircraft(aircraft, now)
    /\ ghost' = [k \in DOMAIN aircraft' |-> ghost[k]]
    /\ scen' = IF aircraft' = aircraft THEN scen ELSE ScenarioOff
    /\ UNCHANGED <<now, ret, called, complete, last, loop>>

\* One call of get_complete_aircraft.
GetComplete ==
    /\ complete' = Some(get_complete_aircraft(aircraft))
    /\ UNCHANGED <<now, aircraft, ret, called, last, ghost, scen, loop>>

\* A call in which the resolver is not reached behaves the same whatever
\* the resolver would do; such a call is taken with NoResolver.
NoResolver == [raises |-> TRUE, value |-> None]
OutcomesFor(m) ==
    IF update_from_decoded_message(aircraft, m, now, NoResolver).called
    THEN ResolverOutcomes
    ELSE {NoResolver}

(* ------------------- one aircraft, every kind of message --------------- *)
Tick == TickWithin(Instants(MaxTick))
IngestPlain == \E m \in PlainMessages("AA") \cup KeylessMessages :
                  IngestUpTo(m, NoResolver, MaxMessages)
IngestFrame == \E m \in FrameMessages("AA") : \E res \in OutcomesFor(m) :
                  IngestUpTo(m, res, MaxMessages)

Next == Tick \/ IngestPlain \/ IngestFrame \/ Cleanup

Spec == Init /\ [][Next]_vars

(* --------------------- two aircraft, a few messages -------------------- *)
FleetKeys == {"AA", "BB"}
FleetMessages(icao) ==
    {Message(icao, "identity", [callsign |-> Some("UAL123")]),
     Message(icao, "identity", [callsign |-> Some("DAL456")]),
     Message(icao, "identity", [callsign |-> Some("")]),
     Message(icao, "identity", EmptyDict),
     Message(icao, "velocity", [velocity_type |-> Some("GS")])}
    \cup AltitudeMessages(icao) \cup OtherMessages(icao)

FleetTick == TickWithin(FleetInstants(MaxFleetTick))
FleetIngest == \E k \in FleetKeys : \E m \in FleetMessages(k) :
                  IngestUpTo(m, NoResolver, MaxFleetMessages)

FleetNext == FleetTick \/ FleetIngest \/ Cleanup

SpecFleet == Init /\ [][FleetNext]_vars

(* ========================= the ingestion loop ========================== *)
\* consume_ten_ninty_stream (src/stream1090/streamConsumer.py).  A line is
\* a sequence of characters; the hex text of a frame is written as one
\* character, "F1".
Whitespace == {" ", "\n"}
RECURSIVE lstrip(_)
lstrip(s) ==
    IF s # <<>> /\ Head(s) \in Whitespace THEN lstrip(Tail(s)) ELSE s
RECURSIVE rstrip(_)
rstrip(s) ==
    IF s # <<>> /\ s[Len(s)] \in Whitespace
    THEN rstrip(SubSeq(s, 1, Len(s) - 1)) ELSE s
\* str.strip()
strip(s) == rstrip(lstrip(s))
startswith(s, c) == s # <<>> /\ Head(s) = c
endswith(s, c) == s # <<>> /\ s[Len(s)] = c

\* The lines on the input: a frame, a frame after leading blanks, a frame
\* with nothing between marker and terminator, a line without the marker,
\* and an empty line.
LoopLines ==
    {<<"*", "F1", ";", "\n">>,
     <<" ", "*", "F1", ";", "\n">>,
     <<"*", ";", "\n">>,
     <<"F1", ";", "\n">>,
     <<"\n">>}

\* Mutant of eligible: a line is decoded whether or not it has the marker.
eligible_any(line) == line # <<>>

\* Line 47, on the stripped line: not skipped.
eligible(line) == line # <<>> /\ startswith(line, "*")

\* adsb_decoder.py 24-27: the marker and the terminator are taken off.
frame_text(line) ==
    LET m1 == IF startswith(line, "*") THEN Tail(line) ELSE line
    IN  IF endswith(m1, ";") THEN SubSeq(m1, 1, Len(m1) - 1) ELSE m1

\* What decode_message returns when pyModeS fails on the frame.
DecodeError == [error |-> "Error decoding message"]
\* The results of decode_message for a frame of aircraft icao: they carry
\* the frame text under "msg".
Decoded(icao, raw) ==
    {Frame(icao, "identity", [callsign |-> Some("UAL123")], raw),
     Frame(icao, "position",
           [altitude |-> Some(35000), cpr_odd_flag |-> FALSE], raw),
     Frame(icao, "position",
           [altitude |-> Some(35000), cpr_odd_flag |-> TRUE], raw),
     Frame(icao, "velocity",
           [speed |-> Some(450), heading |-> Some(270),
            vertical_rate |-> Some(0)], raw),
     Frame(icao, "all_call", EmptyDict, raw)}
\* decode_message on a stripped line: what pyModeS makes of the frame is
\* not modelled, so any result is possible; on an empty frame pms.df
\* raises and the result is the error value.
decode_message(line) ==
    LET msg == frame_text(line)
    IN  IF Len(msg) # 1
        THEN {DecodeError}
        ELSE {DecodeError} \cup Decoded("AA", msg[1])

\* Where an exception is raised while a decoded message is applied: nowhere,
\* in update_from_decoded_message before the record is looked up or after
\* it is created, or in printing the returned record.
RaisePoints == {"none", "lookup", "dispatch", "print"}

\* Lines 50 and 75-76: the body of the loop is inside try/except Exception.
loop_survives(exc) == TRUE

cleanup_due_at_interval(t) ==
    t - loop.last_cleanup >= cleanup_interval_seconds
\* Line 66: whether the eviction pass is due at clock reading t.
cleanup_due(t) == t - loop.last_cleanup > cleanup_interval_seconds

\* One pass of the loop body on one line (lines 45-76): dec is what
\* decode_message returns, res what the resolver does, exc where an
\* exception is raised.  loop records of the line whether it started with
\* the marker as read (marker_read) and once stripped (marker), and whether
\* its decoding gave an error value, and which records the eviction pass
\* of lines 66-68 removed when it last ran (evicted), and what lines 60-62
\* printed for the line (printed).  left is the number of lines that remain
\* to be read afterwards.
LoopBody(line, dec, res, exc, left) ==
    /\ loop.running
    /\ LET text == strip(line)
           skip == ~eligible(text) \/ "error" \in DOMAIN dec
                     \/ DOMAIN dec = {}
           out  == update_from_decoded_message(aircraft, dec, now, res)
           done == exc \in {"none", "print"}
           reg1 == CASE skip \/ exc = "lookup" -> aircraft
                     [] exc = "dispatch" ->
                            get_or_create(aircraft, dec.icao, now)
                     [] OTHER -> out.aircraft
           sweep == ~skip /\ exc = "none" /\ cleanup_due(now)
           reg2 == IF sweep THEN cleanup_old_aircraft(reg1, now) ELSE reg1
       IN  /\ ~skip /\ exc = "print" => out.ret # None
           /\ aircraft' = reg2
           /\ ret' = IF ~skip /\ done THEN out.ret ELSE None
           /\ called' = (~skip /\ done /\ out.called)
           /\ last' = IF ~skip /\ done
                      THEN [icao |-> Some(dec.icao), kind |-> KindOf(dec)]
                      ELSE last
           /\ ghost' = [k \in DOMAIN reg2 |->
                          IF ~skip /\ done /\ k = dec.icao
                          THEN GhostAfter(GhostOf(k), dec)
                          ELSE GhostOf(k)]
           /\ loop' = [pending |-> left,
                       running |-> skip \/ loop_survives(exc),
                       last_cleanup |-> IF sweep THEN now
                                        ELSE loop.last_cleanup,
                       outcome |-> IF skip THEN "skipped"
                                   ELSE IF exc # "none" THEN "raised"
                                   ELSE "applied",
                       marker_read |-> startswith(line, "*"),
                       marker |-> startswith(strip(line), "*"),
                       error |-> "error" \in DOMAIN dec,
                       printed |-> IF ~skip /\ exc = "none" /\ out.ret # None
                                   THEN Some(to_dict(out.aircraft[out.ret[1]]))
                                   ELSE None,
                       evicted |-> IF sweep
                                   THEN DOMAIN reg1 \ DOMAIN reg2
                                   ELSE loop.evicted,
                       skipped |-> loop.skipped \/ skip,
                       raised |-> loop.raised \/ (~skip /\ exc # "none")]
    /\ scen' = ScenarioOff
    /\ UNCHANGED <<now, complete>>

\* Line 45: the for loop takes the next line of a finite input.
ConsumeLine(line, dec, res, exc) ==
    /\ loop.pending > 0
    /\ LoopBody(line, dec, res, exc, loop.pending - 1)

\* Line 45: the input is at its end and the for loop finishes.
EndOfInput ==
    /\ loop.running /\ loop.pending = 0
    /\ loop' = [loop EXCEPT !.running = FALSE]
    /\ UNCHANGED <<now, aircraft, ret, called, complete, last, ghost, scen>>

\* The instants of the loop runs: a pass is due more than 3600 seconds
\* after the last one.
LoopTimeAt(i) ==
    CASE i = 0 -> 0
      [] i = 1 -> 2
      [] i = 2 -> 3600
      [] i = 3 -> 3602
      [] OTHER -> 3602 + 3601 * (i - 3)
LoopInstants(n) == {LoopTimeAt(i) : i \in 0..n}

LoopTick == TickWithin(LoopInstants(MaxLoopTick))
\* A line that is skipped before decoding is taken with no decoder result.
ResultsFor(line) ==
    IF eligible(strip(line)) THEN decode_message(strip(line)) ELSE {EmptyDict}
RaisesFor(dec) ==
    IF "icao" \in DOMAIN dec THEN RaisePoints ELSE {"none"}
LoopStep == \E line \in LoopLines : \E dec \in ResultsFor(line) :
               \E exc \in RaisesFor(dec) : \E res \in OutcomesFor(dec) :
                  ConsumeLine(line, dec, res, exc)

LoopNext == LoopTick \/ LoopStep \/ EndOfInput

SpecLoop == Init /\ [][LoopNext]_vars

(***************************************************************************)
(* The loop on an input that does not end.  Besides the lines of LiveStep, *)
(* of which there are MaxLines, frames of a second aircraft keep arriving: *)
(* decode_message gives an identification whose callsign is blank          *)
(* (adsb_decoder.py lines 46-51: eight spaces are stripped to ""), which   *)
(* is decoded and applied without an exception and leaves the record it    *)
(* finds or creates as it is, so the registry stays finite however long    *)
(* the input goes on.  The clock advances to the last instant of           *)
(* LoopInstants.                                                           *)
(***************************************************************************)
QuietLine == <<"*", "F1", ";", "\n">>
QuietResult == Frame("BB", "identity", [callsign |-> Some("")], "F1")
\* Lines 45-73 on one of the frames that keep arriving.
KeepArriving == LoopBody(QuietLine, QuietResult, NoResolver, "none",
                         loop.pending)

\* The lines of the first aircraft, of which there are MaxLines: any line
\* of LoopLines, decoded to the error value or to an identification,
\* applied without an exception or with one raised after the record is
\* created.
LiveResultsFor(line) ==
    {dec \in ResultsFor(line) :
        "icao" \in DOMAIN dec => MsgType(dec) = "identity"}
LiveStep == \E line \in LoopLines : \E dec \in LiveResultsFor(line) :
               \E exc \in RaisesFor(dec) \cap {"none", "dispatch"} :
                  ConsumeLine(line, dec, NoResolver, exc)

LiveNext == LoopTick \/ LiveStep \/ KeepArriving

\* The for loop of line 45 blocks on sys.stdin and runs its body as soon as
\* a line is there, and time.time() advances by itself: both are weakly
\* fair.
SpecLoopLive ==
    /\ Init /\ [][LiveNext]_vars
    /\ WF_vars(LoopTick) /\ WF_vars(KeepArriving)

(* --------------- any one record, asked whether it is complete ---------- *)
\* The records an aircraft can have at instant 12 after 8 or 9 counted
\* messages: every field set or not, each buffer filled or not, a position
\* only where both buffers are filled.
Optional(v) == {None, Some(v)}
AnyRecords ==
    {r \in [icao : {"AA"}, callsign : Optional("UAL123"),
            lat : Optional(37), lon : Optional(0 - 122),
            alt : Optional(35000), speed : Optional(450),
            heading : Optional(270), vertical_rate : Optional(0),
            velocity_type : Optional("GS"),
            cpr_even_frame : Optional("F1"), cpr_odd_frame : Optional("F2"),
            cpr_even_timestamp : Optional(0), cpr_odd_timestamp : Optional(2),
            first_seen : {0}, last_seen : {2, 12}, message_count : {9, 10}] :
        /\ r.lat = None <=> r.lon = None
        /\ r.lat # None => r.cpr_even_frame # None /\ r.cpr_odd_frame # None
        /\ r.cpr_even_frame = None <=> r.cpr_even_timestamp = None
        /\ r.cpr_odd_frame = None <=> r.cpr_odd_timestamp = None}

InitAnyRecord ==
    /\ now = 12
    /\ aircraft \in {[k \in {"AA"} |-> r] : r \in AnyRecords}
    /\ ret = None
    /\ called = FALSE
    /\ complete = None
    /\ last = [icao |-> Some("AA"), kind |-> "other"]
    /\ ghost = [k \in {"AA"} |->
                  [expected |-> 9,
                   parities |->
                      {p \in {"even", "odd"} :
                          \/ p = "even" /\ aircraft["AA"].cpr_even_frame # None
                          \/ p = "odd" /\ aircraft["AA"].cpr_odd_frame # None},
                   frame |->
                      IF aircraft["AA"].cpr_odd_frame # None
                      THEN Some([parity |-> "odd",
                                 text |-> aircraft["AA"].cpr_odd_frame])
                      ELSE IF aircraft["AA"].cpr_even_frame # None
                      THEN Some([parity |-> "even",
                                 text |-> aircraft["AA"].cpr_even_frame])
                      ELSE None]]
    /\ scen = ScenarioOff
    /\ loop = [pending |-> 0, running |-> FALSE,
               last_cleanup |-> 0, outcome |-> "none",
               marker_read |-> FALSE, marker |-> FALSE, error |-> FALSE,
               evicted |-> {}, printed |-> None,
               skipped |-> FALSE, raised |-> FALSE]

SpecComplete == InitAnyRecord /\ [][GetComplete]_vars

(* ------------- one record gone stale: messages and eviction ------------ *)
\* The clock readings at which the record, last seen at 2 or at 12, has
\* been idle for 290 and 300 seconds (kept by a pass) and for 301 and 311
\* (removed).
StaleInstants == {302, 313}
StaleMessages ==
    {Message("AA", "identity", [callsign |-> Some("UAL123")]),
     Message("AA", "identity", [callsign |-> Some("")]),
     Frame("AA", "position",
           [altitude |-> Some(35000), cpr_odd_flag |-> FALSE], "F1"),
     Frame("AA", "position",
           [altitude |-> Some(35000), cpr_odd_flag |-> TRUE], "F2"),
     Message("AA", "velocity", [speed |-> Some(450)]),
     Message("AA", "velocity", [heading |-> Some(270)]),
     Message("AA", "velocity", [vertical_rate |-> Some(0)]),
     Message("AA", "velocity", [speed |-> None]),
     Message("AA", "status", EmptyDict)}

InitStale ==
    /\ now \in StaleInstants
    /\ aircraft \in {[k \in {"AA"} |-> r] : r \in AnyRecords}
    /\ ret = None
    /\ called = FALSE
    /\ complete = None
    /\ last = [icao |-> Some("AA"), kind |-> "other"]
    /\ ghost = [k \in {"AA"} |->
                  [expected |-> 9,
                   parities |->
                      {p \in {"even", "odd"} :
                          \/ p = "even" /\ aircraft["AA"].cpr_even_frame # None
                          \/ p = "odd" /\ aircraft["AA"].cpr_odd_frame # None},
                   frame |->
                      IF aircraft["AA"].cpr_odd_frame # None
                      THEN Some([parity |-> "odd",
                                 text |-> aircraft["AA"].cpr_odd_frame])
                      ELSE IF aircraft["AA"].cpr_even_frame # None
                      THEN Some([parity |-> "even",
                                 text |-> aircraft["AA"].cpr_even_frame])
                      ELSE None]]
    /\ scen = ScenarioOff
    /\ loop = [pending |-> 0, running |-> FALSE,
               last_cleanup |-> 0, outcome |-> "none",
               marker_read |-> FALSE, marker |-> FALSE, error |-> FALSE,
               evicted |-> {}, printed |-> None,
               skipped |-> FALSE, raised |-> FALSE]

StaleIngest == \E m \in StaleMessages : \E res \in OutcomesFor(m) :
                  IngestUpTo(m, res, MaxStaleMessages)

StaleNext == StaleIngest \/ Cleanup

SpecStale == InitStale /\ [][StaleNext]_vars

(* ------------- records with zero values, applied to and printed -------- *)
MaxPublishLines == 1

\* The records an aircraft can have at instant 12 after 9 counted
\* messages, the even frame buffered at 12: every field set or not, the
\* numbers zero or not, a position only where both buffers are filled.
ZeroOr(v) == {None, Some(0), Some(v)}
PublishRecords ==
    {r \in [icao : {"AA"}, callsign : Optional("UAL123"),
            lat : ZeroOr(37), lon : ZeroOr(0 - 122),
            alt : ZeroOr(35000), speed : ZeroOr(450),
            heading : ZeroOr(270), vertical_rate : ZeroOr(0 - 640),
            velocity_type : Optional("GS"),
            cpr_even_frame : {Some("F1")}, cpr_odd_frame : Optional("F1"),
            cpr_even_timestamp : {Some(12)}, cpr_odd_timestamp : Optional(12),
            first_seen : {0}, last_seen : {12}, message_count : {10}] :
        /\ r.lat = None <=> r.lon = None
        /\ r.lat # None /\ r.lat # Some(0) => r.lon # Some(0)
        /\ r.lat = Some(0) => r.lon = Some(0)
        /\ r.lat = None <=> r.cpr_odd_frame = None
        /\ r.cpr_odd_frame = None <=> r.cpr_odd_timestamp = None}

\* What decode_message gives for the frames of such an aircraft.
PublishMessages ==
    {Frame("AA", "identity", [callsign |-> Some("UAL123")], "F1"),
     Frame("AA", "position",
           [altitude |-> Some(0), cpr_odd_flag |-> TRUE], "F1"),
     Frame("AA", "velocity",
           [speed |-> Some(0), heading |-> Some(0),
            vertical_rate |-> Some(0)], "F1"),
     Frame("AA", "velocity",
           [speed |-> Some(0), heading |-> Some(0),
            vertical_rate |-> Some(0), velocity_type |-> Some("GS")], "F1"),
     Frame("AA", "velocity", [speed |-> Some(450)], "F1"),
     Frame("AA", "surveillance_alt", [altitude |-> Some(0)], "F1")}
\* pms.adsb.airborne_position resolves to latitude 0.0, longitude 0.0, or
\* to nothing.
PublishOutcomes ==
    {[raises |-> FALSE, value |-> None],
     [raises |-> FALSE, value |-> Some(<<0, 0>>)]}

InitPublish ==
    /\ now = 12
    /\ aircraft \in {[k \in {"AA"} |-> r] : r \in PublishRecords}
    /\ ret = None
    /\ called = FALSE
    /\ complete = None
    /\ last = [icao |-> Some("AA"), kind |-> "other"]
    /\ ghost = [k \in {"AA"} |->
                  [expected |-> 10,
                   parities |-> IF aircraft["AA"].cpr_odd_frame # None
                                THEN {"even", "odd"} ELSE {"even"},
                   frame |-> Some([parity |-> "even", text |-> "F1"])]]
    /\ scen = ScenarioOff
    /\ loop = [pending |-> MaxPublishLines, running |-> TRUE,
               last_cleanup |-> 0, outcome |-> "none",
               marker_read |-> FALSE, marker |-> FALSE, error |-> FALSE,
               evicted |-> {}, printed |-> None,
               skipped |-> FALSE, raised |-> FALSE]

\* Lines 45-73 on one line of such an aircraft.
PublishStep == \E dec \in PublishMessages :
                  \E res \in (IF update_from_decoded_message(
                                     aircraft, dec, now, NoResolver).called
                               THEN PublishOutcomes ELSE {NoResolver}) :
                     ConsumeLine(QuietLine, dec, res, "none")

SpecPublish == InitPublish /\ [][PublishStep]_vars

(* ================================ claims =============================== *)
Rec(k) == aircraft[k]
Present(k) == k \in DOMAIN aircraft
Keys == {"AA", "BB"}
EmptyCallsignMessage(k) == Message(k, "identity", [callsign |-> Some("")])

C3_MessageCountIsMessages ==
    \A k \in Keys :
        Present(k) => Rec(k).message_count = ghost[k].expected

\* C4: an eviction pass at time now removes exactly the records with
\* now - last_seen > 300, and leaves every record it keeps as it was.
C4_EvictionExact ==
    [][Cleanup =>
          /\ DOMAIN aircraft' \subseteq DOMAIN aircraft
          /\ \A k \in DOMAIN aircraft :
                IF k \in DOMAIN aircraft'
                THEN /\ now - Rec(k).last_seen <= 300
                     /\ aircraft'[k] = Rec(k)
                ELSE now - Rec(k).last_seen > 300]_vars

\* C4 witness: AA received a message and is gone, so a pass removed it,
\* which takes an idle time above 300; BB, idle for exactly 300 seconds at
\* that pass, is still there.
C4_Witness ==
    /\ last.icao = Some("AA") /\ ~Present("AA")
    /\ Present("BB") /\ now - Rec("BB").last_seen = 300
    /\ Rec("BB").callsign # None

\* C5: a record whose position and position_gnss messages all had the same
\* parity has neither latitude nor longitude.
C5_OneParityNoPosition ==
    \A k \in Keys :
        (Present(k) /\ Cardinality(ghost[k].parities) <= 1) =>
            Rec(k).lat = None /\ Rec(k).lon = None

\* C5 witness: odd frames only, the last of them 12 seconds after the
\* record was created, other categories in between, and no position.
C5_Witness ==
    /\ Present("AA") /\ ghost["AA"].parities = {"odd"}
    /\ Rec("AA").first_seen = 0
    /\ Rec("AA").cpr_odd_timestamp = Some(12)
    /\ Rec("AA").message_count >= 5
    /\ Rec("AA").callsign # None /\ Rec("AA").speed # None
    /\ Rec("AA").lat = None /\ Rec("AA").lon = None

\* C6: after a position or position_gnss frame is buffered, the resolver
\* is invoked if and only if both buffers are populated and their capture
\* times differ by less than 10 seconds; when it is not invoked, latitude
\* and longitude are what they were.
C6_ResolverIffPairInWindow ==
    [][\A k \in Keys :
          (last'.icao = Some(k) /\ last'.kind = "frame"
             /\ k \in DOMAIN aircraft') =>
            LET a == aircraft'[k]
                paired == /\ a.cpr_even_frame # None
                          /\ a.cpr_odd_frame # None
                          /\ Abs(a.cpr_even_timestamp[1]
                                   - a.cpr_odd_timestamp[1]) < 10
            IN  /\ called' <=> paired
                /\ ~called' =>
                      /\ a.lat = IF Present(k) THEN Rec(k).lat ELSE None
                      /\ a.lon = IF Present(k) THEN Rec(k).lon ELSE None]_vars

\* C6 witness: an even frame at 0 and an odd frame at 12 are buffered, the
\* resolver was not invoked and there is no position.
C6_Witness ==
    /\ last = [icao |-> Some("AA"), kind |-> "frame"]
    /\ Present("AA") /\ ~called
    /\ Rec("AA").cpr_even_timestamp = Some(0)
    /\ Rec("AA").cpr_odd_timestamp = Some(12)
    /\ Rec("AA").lat = None /\ Rec("AA").lon = None

\* C7: latitude and longitude are both present or both absent, and they
\* change only in a step in which a position or position_gnss frame of
\* that key invoked the resolver, which then sets both.
C7_PositionWrittenAsPair ==
    /\ [](\A k \in Keys :
            Present(k) => (Rec(k).lat = None <=> Rec(k).lon = None))
    /\ [][\A k \in Keys :
            (Present(k) /\ k \in DOMAIN aircraft'
               /\ (aircraft'[k].lat # Rec(k).lat
                     \/ aircraft'[k].lon # Rec(k).lon)) =>
                /\ last' = [icao |-> Some(k), kind |-> "frame"]
                /\ called'
                /\ aircraft'[k].lat # None
                /\ aircraft'[k].lon # None]_vars

\* C7 witness: a frame of AA invoked the resolver and both fields are set.
C7_Witness ==
    /\ last = [icao |-> Some("AA"), kind |-> "frame"] /\ called
    /\ Present("AA")
    /\ Rec("AA").lat = Some(37) /\ Rec("AA").lon = Some(0 - 122)

\* C8: is_complete() is true exactly when callsign, latitude, longitude,
\* altitude, speed, heading and vertical rate are all set, whatever
\* velocity_type, the buffers, the timestamps and message_count are; and
\* asking changes nothing.
C8_CompleteIffAllSet ==
    /\ [](complete # None =>
            \A k \in DOMAIN aircraft :
                k \in complete[1] <=>
                    /\ Rec(k).callsign # None
                    /\ Rec(k).lat # None /\ Rec(k).lon # None
                    /\ Rec(k).alt # None
                    /\ Rec(k).speed # None /\ Rec(k).heading # None
                    /\ Rec(k).vertical_rate # None)
    /\ [][complete' # complete => aircraft' = aircraft]_vars

\* C8 witness: a record found complete with no velocity_type, its
\* message_count 9.
C8_Witness ==
    /\ complete = Some({"AA"})
    /\ Rec("AA").velocity_type = None
    /\ Rec("AA").message_count = 9

\* C9: the scenario on an empty registry: identity UAL123 (count 2, nothing
\* returned), even frame with altitude 35000 (count 3, no position), odd
\* frame 2 seconds later decoded to (37, -122) (count 4, nothing returned),
\* velocity 450/270/0 (count 5, complete, the record returned).
C9_Scenario ==
    /\ scen = 1 =>
          /\ Rec("AA").message_count = 2
          /\ Rec("AA").callsign = Some("UAL123")
          /\ ret = None
    /\ scen = 2 =>
          /\ Rec("AA").alt = Some(35000)
          /\ Rec("AA").message_count = 3
          /\ Rec("AA").lat = None /\ Rec("AA").lon = None
    /\ scen = 3 =>
          /\ Rec("AA").lat = Some(37) /\ Rec("AA").lon = Some(0 - 122)
          /\ Rec("AA").message_count = 4
          /\ ret = None
    /\ scen = 4 =>
          /\ Rec("AA").speed = Some(450) /\ Rec("AA").heading = Some(270)
          /\ Rec("AA").vertical_rate = Some(0)
          /\ Rec("AA").message_count = 5
          /\ is_complete(Rec("AA"))
          /\ ret = Some("AA")

\* C10: an identity message whose callsign is present but empty leaves an
\* existing record as it was, field for field.
C10_EmptyCallsignNoOp ==
    [][\A k \in Keys :
          (Present(k)
             /\ IngestUpTo(EmptyCallsignMessage(k), NoResolver, MaxMessages))
            => (k \in DOMAIN aircraft' /\ aircraft'[k] = Rec(k))]_vars

\* C10 witness: the last message was such a message, for a record that a
\* frame had created before.
C10_Witness ==
    /\ last = [icao |-> Some("AA"), kind |-> "empty_callsign"]
    /\ Present("AA")
    /\ Rec("AA").cpr_even_frame # None
    /\ Rec("AA").callsign # None

\* C11: the clock never going backwards, every record has last_seen >=
\* first_seen and is filed under its own key, and from one step to the next
\* its last_seen does not decrease while its first_seen and key stay what
\* they were at creation.
C11_SeenTimesOrdered ==
    /\ [](\A k \in Keys :
            Present(k) => /\ Rec(k).last_seen >= Rec(k).first_seen
                          /\ Rec(k).icao = k)
    /\ [][\A k \in Keys :
            (Present(k) /\ k \in DOMAIN aircraft') =>
                /\ aircraft'[k].last_seen >= Rec(k).last_seen
                /\ aircraft'[k].first_seen = Rec(k).first_seen
                /\ aircraft'[k].icao = Rec(k).icao]_vars

\* C11 witness: a record created at 0 that took messages up to instant 12.
C11_Witness ==
    /\ Present("AA")
    /\ Rec("AA").first_seen = 0 /\ Rec("AA").last_seen = 12
    /\ Rec("AA").message_count >= 4

FailedOutcomes == {res \in ResolverOutcomes : res.raises \/ res.value = None}

\* C13: when the resolver is invoked on a position frame and raises or
\* returns None, latitude and longitude are what they were before the
\* message, the message is counted (last_seen is the time of the call,
\* message_count is one more), the altitude it carries is stored, its frame
\* is in the buffer of its parity, and the call returns as any other.
C13_FailedResolverLeavesPosition ==
    [][\A m \in FrameMessages("AA") : \A res \in FailedOutcomes :
          (last'.kind = "frame" /\ called'
             /\ IngestUpTo(m, res, MaxMessages)) =>
            LET old == IF Present("AA") THEN Rec("AA")
                       ELSE AircraftState("AA", now)
                new == aircraft'["AA"]
                alt == DictGet(m.data, "altitude")
            IN  /\ new.lat = old.lat /\ new.lon = old.lon
                /\ new.last_seen = now
                /\ new.message_count = old.message_count + 1
                /\ alt # None => new.alt = alt
                /\ IF ParityOf(m) = "odd"
                   THEN /\ new.cpr_odd_frame = m.msg
                        /\ new.cpr_odd_timestamp = Some(now)
                   ELSE /\ new.cpr_even_frame = m.msg
                        /\ new.cpr_even_timestamp = Some(now)
                /\ ret' = returned(new)]_vars

\* C13 witness: the resolver was invoked on a frame of AA and there is no
\* position, so it failed; the altitude and both buffers are there.
C13_Witness ==
    /\ last = [icao |-> Some("AA"), kind |-> "frame"] /\ called
    /\ Present("AA")
    /\ Rec("AA").lat = None /\ Rec("AA").lon = None
    /\ Rec("AA").alt = Some(35000)
    /\ Rec("AA").cpr_even_frame # None /\ Rec("AA").cpr_odd_frame # None
    /\ Rec("AA").last_seen = now

\* The messages of the altitude-bearing categories that carry an altitude.
AltitudeCarriers ==
    {m \in PlainMessages("AA") \cup FrameMessages("AA") :
        /\ MsgType(m) \in PositionTypes \cup {"surface_position"}
                             \cup AltitudeTypes
        /\ DictGet(MsgData(m), "altitude") # None}

C15_OneRecordPerKey ==
    /\ [](\A k \in DOMAIN aircraft : k \in Keys /\ Rec(k).icao = k)
    /\ [][(\E k \in DOMAIN aircraft : k \notin DOMAIN aircraft')
             => Cleanup]_vars
    /\ [][\A k \in Keys :
            (k \in DOMAIN aircraft' /\ ~Cleanup) =>
                IF Present(k)
                THEN /\ aircraft'[k].first_seen = Rec(k).first_seen
                     /\ aircraft'[k].message_count >= Rec(k).message_count
                ELSE /\ last'.icao = Some(k)
                     /\ aircraft'[k].first_seen = now
                     /\ aircraft'[k].message_count >= 1]_vars

\* C15 witness: BB was created by a message that its dispatch did not
\* count (an empty-callsign identity message), long after AA, which has
\* taken a message since.
C15_Witness ==
    /\ last = [icao |-> Some("BB"), kind |-> "empty_callsign"]
    /\ Present("BB") /\ Rec("BB").message_count = 1
    /\ Rec("BB").first_seen = 302
    /\ Present("AA") /\ Rec("AA").first_seen = 0
    /\ Rec("AA").last_seen = 302

\* C16: a message for key k leaves every record of another key as it was,
\* and adds or removes no other key.  (last' holds the key of the message
\* given in the step; a step that is not an eviction pass and changes the
\* registry is the application of a message.)
C16_OtherRecordsUntouched ==
    [][~Cleanup =>
          \A j \in Keys :
              last'.icao # Some(j) =>
                  /\ j \in DOMAIN aircraft' <=> Present(j)
                  /\ Present(j) => aircraft'[j] = Rec(j)]_vars

\* C16 witness: the last message was for BB, at 302, and changed BB; AA,
\* last seen at 2 with a callsign and an altitude, is there.
C16_Witness ==
    /\ last.icao = Some("BB") /\ now = 302
    /\ Present("BB") /\ Rec("BB").last_seen = 302
    /\ Present("AA") /\ Rec("AA").last_seen = 2
    /\ Rec("AA").callsign # None /\ Rec("AA").alt # None

\* C17: after a message for key k other than an identity message with an
\* empty callsign is applied, the record's last_seen is the time of the
\* call.  (A step that is not an eviction pass and in which the clock does
\* not move is the application of the message that last' describes.)
C17_EveryMessageRefreshes ==
    [][\A k \in Keys :
          (last'.icao = Some(k) /\ last'.kind # "empty_callsign"
             /\ now' = now /\ ~Cleanup) =>
            (k \in DOMAIN aircraft' /\ aircraft'[k].last_seen = now)]_vars

\* C17 witness: a record created at 0 that only took messages carrying
\* nothing for it, the last of them at 12.
C17_Witness ==
    /\ last = [icao |-> Some("AA"), kind |-> "other"]
    /\ Present("AA") /\ now = 12
    /\ Rec("AA").first_seen = 0 /\ Rec("AA").last_seen = 12
    /\ Rec("AA").message_count >= 3
    /\ Rec("AA").callsign = None /\ Rec("AA").alt = None
    /\ Rec("AA").speed = None /\ Rec("AA").heading = None
    /\ Rec("AA").vertical_rate = None
    /\ Rec("AA").cpr_even_frame = None /\ Rec("AA").cpr_odd_frame = None

\* The two CPR buffers of a record.
EvenBuffer(a) == <<a.cpr_even_frame, a.cpr_even_timestamp>>
OddBuffer(a) == <<a.cpr_odd_frame, a.cpr_odd_timestamp>>
\* A step in which a position or position_gnss frame of key k is applied.
FrameStep(k) ==
    /\ last' = [icao |-> Some(k), kind |-> "frame"]
    /\ now' = now /\ ghost' # ghost

\* C18: an odd position or position_gnss frame puts its text and the time
\* of the call in the odd buffer, whatever was there, and leaves the even
\* buffer as it was; an even frame does the converse; every other step
\* leaves both buffers of a record that stays in the registry as they
\* were, so a filled buffer is never emptied.
C18_BuffersIndependent ==
    [][\A k \in Keys :
          k \in DOMAIN aircraft' =>
            LET old == IF Present(k) THEN Rec(k) ELSE AircraftState(k, now)
                new == aircraft'[k]
                given == ghost'[k].frame[1]
            IN  IF ~FrameStep(k)
                THEN /\ EvenBuffer(new) = EvenBuffer(old)
                     /\ OddBuffer(new) = OddBuffer(old)
                ELSE IF given.parity = "odd"
                THEN /\ OddBuffer(new) = <<given.text, Some(now)>>
                     /\ EvenBuffer(new) = EvenBuffer(old)
                ELSE /\ EvenBuffer(new) = <<given.text, Some(now)>>
                     /\ OddBuffer(new) = OddBuffer(old)]_vars

\* C18 witness: an even frame buffered at 0 is still there at 12, after an
\* odd frame at 2 and, at 12, a message of another category.
C18_Witness ==
    /\ last = [icao |-> Some("AA"), kind |-> "other"] /\ now = 12
    /\ Present("AA") /\ Rec("AA").last_seen = 12
    /\ EvenBuffer(Rec("AA")) = <<Some("F1"), Some(0)>>
    /\ OddBuffer(Rec("AA")) = <<Some("F2"), Some(2)>>

\* The identity messages of key k that carry a non-empty callsign.
CallsignMessages(k) ==
    {m \in FleetMessages(k) :
        /\ MsgType(m) = "identity"
        /\ Truthy(DictGet(MsgData(m), "callsign"))}

\* C19: the callsign of a record is None or a non-empty string; applied
\* to the registry as it stands, an identity message with a non-empty
\* callsign makes it that value; and from one step to the next it differs
\* from what it was (None for a record just created) only where such a
\* message was applied.
C19_CallsignOnlyFromIdentity ==
    /\ [](\A k \in Keys :
            Present(k) => Rec(k).callsign = None \/ Rec(k).callsign[1] # "")
    /\ [](\A k \in FleetKeys : \A m \in CallsignMessages(k) :
            update_from_decoded_message(aircraft, m, now, NoResolver)
                .aircraft[k].callsign = m.data.callsign)
    /\ [][\A k \in Keys :
            LET old == IF Present(k) THEN Rec(k).callsign ELSE None
            IN  (k \in DOMAIN aircraft' /\ aircraft'[k].callsign # old) =>
                    \E m \in CallsignMessages(k) :
                        /\ IngestUpTo(m, NoResolver, MaxFleetMessages)
                        /\ aircraft'[k].callsign = m.data.callsign]_vars

\* C19 witness: AA, created at 0, has the callsign DAL456 given at 302,
\* and took one other counted message.
C19_Witness ==
    /\ Present("AA") /\ Rec("AA").callsign = Some("DAL456")
    /\ Rec("AA").message_count = 3
    /\ Rec("AA").first_seen = 0 /\ Rec("AA").last_seen = 302
    /\ Present("BB") /\ Rec("BB").callsign = None

\* The record the claim describes after one message m at time t for a key
\* that has no record: nothing but what m sets, counted from 1.
FreshWith(m, t) ==
    LET data == MsgData(m)
        frame == IF IsFrame(m) THEN m.msg ELSE None
        stamp == IF IsFrame(m) THEN Some(t) ELSE None
        odd == ParityOf(m) = "odd"
    IN  [icao |-> m.icao,
         callsign |-> IF MsgType(m) = "identity"
                         /\ Truthy(DictGet(data, "callsign"))
                      THEN data.callsign ELSE None,
         lat |-> None, lon |-> None,
         alt |-> IF IsFrame(m) THEN DictGet(data, "altitude") ELSE None,
         speed |-> IF MsgType(m) = "velocity"
                   THEN DictGet(data, "speed") ELSE None,
         heading |-> IF MsgType(m) = "velocity"
                     THEN DictGet(data, "heading") ELSE None,
         vertical_rate |-> IF MsgType(m) = "velocity"
                           THEN DictGet(data, "vertical_rate") ELSE None,
         velocity_type |-> None,
         cpr_even_frame |-> IF odd THEN None ELSE frame,
         cpr_odd_frame |-> IF odd THEN frame ELSE None,
         cpr_even_timestamp |-> IF odd THEN None ELSE stamp,
         cpr_odd_timestamp |-> IF odd THEN stamp ELSE None,
         first_seen |-> t, last_seen |-> t,
         message_count |-> IF IsEmptyCallsign(m) THEN 1 ELSE 2]
\* The fields that make a record complete.
FusedFields ==
    {"callsign", "lat", "lon", "alt", "speed", "heading", "vertical_rate"}

LastEarlyInstant == LoopTimeAt(1)
\* Record k is in the registry and its last message came that early: it
\* stops being so by leaving the registry or by a later message.
Silent(k) == Present(k) /\ Rec(k).last_seen <= LastEarlyInstant

\* C21: in the ingestion loop an eviction pass runs, and records leave the
\* registry, only in the step of a line that was decoded and applied
\* without an exception and only when more than cleanup_interval_seconds
\* have passed since the previous pass (the start of the loop at first);
\* while decodable lines keep arriving and the clock advances, a record
\* that gets no further message is eventually removed from the registry.
C21_PassOnlyWhenDueAndEventuallyEvicts ==
    /\ [][loop'.last_cleanup # loop.last_cleanup
            => /\ loop'.outcome = "applied"
               /\ now - loop.last_cleanup > cleanup_interval_seconds
               /\ loop'.last_cleanup = now]_vars
    /\ [][~(DOMAIN aircraft \subseteq DOMAIN aircraft')
            => loop'.last_cleanup # loop.last_cleanup]_vars
    /\ [][(/\ loop'.pending # loop.pending \/ loop'.outcome # loop.outcome
           /\ loop'.outcome = "applied"
           /\ now - loop.last_cleanup > cleanup_interval_seconds)
          => loop'.last_cleanup = now]_vars
    /\ \A k \in Keys : Silent(k) ~> ~Silent(k)
C21_Witness ==
    /\ "AA" \in loop.evicted /\ ~Present("AA")
    /\ loop.outcome = "applied"
    /\ loop.last_cleanup = now /\ now > cleanup_interval_seconds
    /\ loop.skipped /\ loop.raised

\* The record that the last line was applied to and that was printed.
Printed == loop.printed[1]
PrintedFrom == Rec(last.icao[1])

\* C22: what to_dict gives for a record returned by the ingestion has a
\* position section with the record's latitude, longitude and altitude and
\* a velocity section with its speed, heading and vertical rate, whatever
\* the values, zero included.
C22_SectionsPresent ==
    loop.printed # None =>
       /\ Printed.position # None
       /\ Printed.position[1].latitude = PrintedFrom.lat
       /\ Printed.position[1].longitude = PrintedFrom.lon
       /\ Printed.position[1].altitude_ft = PrintedFrom.alt
       /\ Printed.velocity # None
       /\ Printed.velocity[1].ground_speed_kts = PrintedFrom.speed
       /\ Printed.velocity[1].heading_deg = PrintedFrom.heading
       /\ Printed.velocity[1].vertical_rate_fpm = PrintedFrom.vertical_rate

\* C23: update_from_decoded_message on an empty message or on a message
\* without an aircraft key returns None and leaves the registry as it is:
\* no record is created, changed or removed.
C23_KeylessMessageIgnored ==
    /\ [](\A m \in KeylessMessages :
            LET out == update_from_decoded_message(aircraft, m, now,
                                                   NoResolver)
            IN  out.ret = None /\ out.aircraft = aircraft)
    /\ [][~Cleanup /\ now' = now /\ last'.icao = None
            => aircraft' = aircraft /\ ret' = None]_vars
C23_Witness ==
    /\ last = [icao |-> None, kind |-> "other"]
    /\ ret = None
    /\ Present("AA") /\ is_complete(Rec("AA"))
====
